---- MODULE Spec2Model ----
(***************************************************************************)
(* Model of the conservation-site front end's two stateful subsystems:     *)
(*   - the global TTS lock (src/src/utils/ttsManager.js) together with its *)
(*     only client, speakText of the locking azureTTS module               *)
(*     (src/unnamed/part_006);                                             *)
(*   - the map view's geolocation watch and "Talking Trees" proximity      *)
(*     scanner (src/src/components/Sitemap.jsx) with the POI search of     *)
(*     src/src/utils/geo.js.                                               *)
(* The two subsystems share no state; SpecTTS and SpecMap explore them     *)
(* separately, each leaving the other's variables untouched.  SpecMapFault *)
(* is SpecMap with scans that may raise; SpecGeo calls the pure functions  *)
(* of geo.js on bounded inputs; SpecWeather explores the cached fetch of   *)
(* src/src/components/WeatherWidget.jsx.  SpecMap includes the Play/Stop   *)
(* controls of the Talking Trees panel.                                    *)
(***************************************************************************)
EXTENDS Integers, Sequences, FiniteSets, TLC

(***************************************************************************)
(* Bounds                                                                  *)
(***************************************************************************)
\* number of SpeechSynthesizer objects speakText may create in one run
MaxSynth == 2

\* JavaScript null for a synthesizer handle (synthesizers are 1..MaxSynth)
NoSynth == 0

SynthIds == 1..MaxSynth

VARIABLES
  \* ---- ttsManager.js module state ----
  isLocked,           \* let isLocked
  activeSynthesizer,  \* let activeSynthesizer (NoSynth = null)
  \* ---- the Speech SDK objects created by speakText ----
  nSynth,             \* how many synthesizers createSpeechSynthesizer returned
  synths,             \* per synthesizer: callbacks in flight, audio, closed
  \* ---- what the last call did (return value, callbacks, exceptions) ----
  lastOp

ttsVars == <<isLocked, activeSynthesizer, nSynth, synths, lastOp>>

\* A synthesizer the SDK has not been asked anything of yet.
FreshSynth ==
  [speakCb |-> "none", stopCb |-> "none", closed |-> FALSE, speaking |-> FALSE]

\* The observation record of one call.
\*   ok       lockTTS's return value
\*   synth    the synthesizer speakText returned / the callback belongs to
\*   prev     activeSynthesizer when the call began
\*   locked   isLocked when the call began
\*   attempts synthesizers on which stopSpeakingAsync or close was called
\*   stopThrew, closeThrew  what the SDK did to those calls
\*   escaped  an exception of stopSpeakingAsync/close propagated out
\*   threw    any exception propagated out of the call
\*   onEnd, onError  how many times the caller's callbacks were invoked
Op(name) ==
  [op |-> name, ok |-> FALSE, synth |-> NoSynth, prev |-> activeSynthesizer,
   locked |-> isLocked, attempts |-> {}, stopThrew |-> FALSE,
   closeThrew |-> FALSE, escaped |-> FALSE, threw |-> FALSE, onEnd |-> 0, onError |-> 0]

InitTTS ==
  /\ isLocked = FALSE
  /\ activeSynthesizer = NoSynth
  /\ nSynth = 0
  /\ synths = [s \in SynthIds |-> FreshSynth]
  /\ lastOp = [Op("init") EXCEPT !.prev = NoSynth, !.locked = FALSE]

(***************************************************************************)
(* ttsManager.js                                                           *)
(***************************************************************************)

\* lockTTS without the `if (isLocked) return false` test.
lockTTS_NoTest ==
  /\ isLocked' = TRUE
  /\ lastOp' = [Op("lockTTS") EXCEPT !.ok = TRUE]
  /\ UNCHANGED <<activeSynthesizer, nSynth, synths>>

lockTTS ==
  /\ IF isLocked
       THEN /\ isLocked' = isLocked
            /\ lastOp' = [Op("lockTTS") EXCEPT !.ok = FALSE]
       ELSE /\ isLocked' = TRUE
            /\ lastOp' = [Op("lockTTS") EXCEPT !.ok = TRUE]
  /\ UNCHANGED <<activeSynthesizer, nSynth, synths>>

\* unlockTTS that clears the lock bit and keeps the stored handle.
unlockTTS_KeepsHandle ==
  /\ isLocked' = FALSE
  /\ lastOp' = Op("unlockTTS")
  /\ UNCHANGED <<activeSynthesizer, nSynth, synths>>

unlockTTS ==
  /\ isLocked' = FALSE
  /\ activeSynthesizer' = NoSynth
  /\ lastOp' = Op("unlockTTS")
  /\ UNCHANGED <<nSynth, synths>>

\* A lock test that always passes.
isPlayingTTS_Always == TRUE

isPlayingTTS == isLocked

\* The nested try/catch without the inner one: close's exception escapes.
StopAndDispose_NoInnerCatch(stopThrows, closeThrows) ==
  IF ~stopThrows THEN "stopIssued"
  ELSE IF ~closeThrows THEN "closed"
  ELSE "escaped"

\* try { s.stopSpeakingAsync(cb, cb) } catch (e) { try { s.close() } catch (err) {} }
\* stopThrows / closeThrows: what the SDK does to the two calls.
StopAndDispose(stopThrows, closeThrows) ==
  IF ~stopThrows THEN "stopIssued"      \* callbacks registered, close later
  ELSE IF ~closeThrows THEN "closed"    \* catch branch closed it
  ELSE "swallowed"                      \* both threw, both caught

\* The SDK object after the outcome of a stop/dispose attempt.
AfterDispose(rec, outcome) ==
  CASE outcome = "stopIssued" ->
         [rec EXCEPT !.stopCb = "pending", !.speaking = FALSE]
    [] outcome = "closed" ->
         [rec EXCEPT !.closed = TRUE, !.speaking = FALSE]
    [] OTHER -> rec

\* setActiveSynthesizer that forgets the previous synthesizer: it only stores.
setActiveSynthesizer_NoStop(synth, stopThrows, closeThrows) ==
  [outcome |-> "none", active |-> synth, synths |-> synths, attempts |-> {}]

\* setActiveSynthesizer(synth): the stop/dispose attempt on the previous
\* handle comes first; the assignment is the last statement, so it is reached
\* only if nothing escaped.
setActiveSynthesizer(synth, stopThrows, closeThrows) ==
  LET prev == activeSynthesizer
      outcome == IF prev # NoSynth
                   THEN StopAndDispose(stopThrows, closeThrows)
                   ELSE "none"
  IN [outcome  |-> outcome,
      active   |-> IF outcome = "escaped" THEN prev ELSE synth,
      synths   |-> IF prev # NoSynth
                     THEN [synths EXCEPT ![prev] = AfterDispose(@, outcome)]
                     ELSE synths,
      attempts |-> IF prev # NoSynth THEN {prev} ELSE {}]

\* stopActiveSynthesizer that tests nothing and stops whatever it read.
stopActiveSynthesizer_NoNullTest ==
  \E stopThrows, closeThrows \in BOOLEAN :
    LET synth == activeSynthesizer
        outcome == StopAndDispose(stopThrows, closeThrows)
    IN /\ isLocked' = FALSE
       /\ activeSynthesizer' = NoSynth
       /\ synths' = IF synth # NoSynth
                      THEN [synths EXCEPT ![synth] = AfterDispose(@, outcome)]
                      ELSE synths
       /\ lastOp' = [Op("stopActiveSynthesizer") EXCEPT
                       !.attempts = {synth},
                       !.stopThrew = stopThrows,
                       !.closeThrew = closeThrows,
                       !.escaped = (outcome = "escaped"),
                       !.threw = (outcome = "escaped")]
       /\ UNCHANGED nSynth

\* stopActiveSynthesizer: the lock and the handle are cleared before the
\* stop/dispose attempt, so they are cleared whatever the attempt does.
stopActiveSynthesizer ==
  \E stopThrows, closeThrows \in BOOLEAN :
    LET synth == activeSynthesizer
        outcome == IF synth # NoSynth
                     THEN StopAndDispose(stopThrows, closeThrows)
                     ELSE "none"
    IN /\ isLocked' = FALSE
       /\ activeSynthesizer' = NoSynth
       /\ synths' = IF synth # NoSynth
                      THEN [synths EXCEPT ![synth] = AfterDispose(@, outcome)]
                      ELSE synths
       /\ lastOp' = [Op("stopActiveSynthesizer") EXCEPT
                       !.attempts = IF synth # NoSynth THEN {synth} ELSE {},
                       !.stopThrew = (synth # NoSynth /\ stopThrows),
                       !.closeThrew = (synth # NoSynth /\ stopThrows /\ closeThrows),
                       !.escaped = (outcome = "escaped"),
                       !.threw = (outcome = "escaped")]
       /\ UNCHANGED nSynth

(***************************************************************************)
(* azureTTS with locking (src/unnamed/part_006)                            *)
(***************************************************************************)

\* speakText(text, onEnd, onError).
\*   createOk      createSpeechSynthesizer returned a synthesizer (not null)
\*   textIsString  text has a replace method (otherwise text.replace throws)
speakText ==
  \E createOk, textIsString, stopThrows, closeThrows \in BOOLEAN :
    IF ~isPlayingTTS
      THEN \* "TTS not locked": onError, return null
           /\ lastOp' = [Op("speakText") EXCEPT !.onError = 1]
           /\ UNCHANGED <<isLocked, activeSynthesizer, nSynth, synths>>
      ELSE IF ~createOk
      THEN \* "Synthesizer failed": unlockTTS(), onError, return null
           /\ isLocked' = FALSE
           /\ activeSynthesizer' = NoSynth
           /\ lastOp' = [Op("speakText") EXCEPT !.onError = 1]
           /\ UNCHANGED <<nSynth, synths>>
      ELSE /\ nSynth < MaxSynth
           /\ LET synth == nSynth + 1
                  set == setActiveSynthesizer(synth, stopThrows, closeThrows)
                  attempted == set.attempts # {}
                  op == [Op("speakText") EXCEPT
                           !.attempts = set.attempts,
                           !.stopThrew = (attempted /\ stopThrows),
                           !.closeThrew = (attempted /\ stopThrows /\ closeThrows),
                           !.escaped = (set.outcome = "escaped")]
              IN /\ nSynth' = synth
                 /\ activeSynthesizer' = set.active
                 /\ UNCHANGED isLocked
                 /\ IF set.outcome = "escaped" \/ ~textIsString
                      THEN \* an exception leaves speakText before speakSsmlAsync
                           /\ synths' = set.synths
                           /\ lastOp' = [op EXCEPT !.threw = TRUE]
                      ELSE \* synth.speakSsmlAsync(ssml, onDone, onFail); return synth
                           /\ synths' = [set.synths EXCEPT ![synth] =
                                 [@ EXCEPT !.speakCb = "pending", !.speaking = TRUE]]
                           /\ lastOp' = [op EXCEPT !.synth = synth]

\* One of the two callbacks speakText handed to synth.speakSsmlAsync, invoked
\* by the SDK at a time of its choosing: unlockTTS(); try { synth.close() }
\* catch {}; then the caller's onEnd (completed) or onError (failed).
SpeakCallback(synth, completed, closeThrows) ==
  /\ synths[synth].speakCb = "pending"
  /\ isLocked' = FALSE
  /\ activeSynthesizer' = NoSynth
  /\ synths' = [synths EXCEPT ![synth] =
        [@ EXCEPT !.speakCb = "fired", !.speaking = FALSE,
                  !.closed = (@ \/ ~closeThrows)]]
  /\ lastOp' = [Op("speakCallback") EXCEPT
                  !.synth = synth, !.attempts = {synth},
                  !.closeThrew = closeThrows,
                  !.onEnd = IF completed THEN 1 ELSE 0,
                  !.onError = IF completed THEN 0 ELSE 1]
  /\ UNCHANGED nSynth

\* One of the two callbacks handed to stopSpeakingAsync:
\* () => { try { synth.close() } catch (e) {} }
StopCallback(synth, closeThrows) ==
  /\ synths[synth].stopCb = "pending"
  /\ synths' = [synths EXCEPT ![synth] =
        [@ EXCEPT !.stopCb = "fired", !.closed = (@ \/ ~closeThrows)]]
  /\ lastOp' = [Op("stopCallback") EXCEPT
                  !.synth = synth, !.attempts = {synth},
                  !.closeThrew = closeThrows]
  /\ UNCHANGED <<isLocked, activeSynthesizer, nSynth>>
(***************************************************************************)
(* geo.js                                                                  *)
(***************************************************************************)

\* JavaScript null for objects; a position is <<lat, lng>>, a scan result is
\* <<index of the POI in pois, distance>>.
Null == <<>>

Abs(x) == IF x < 0 THEN -x ELSE x

\* The pois argument as a JavaScript value: an array with its items, or a
\* value Array.isArray rejects (undefined, null, an object).
Array(items) == [isArray |-> TRUE, items |-> items]
NotAnArray == [isArray |-> FALSE, items |-> <<>>]

\* haversineMeters on one meridian: with lon1 = lon2 the formula reduces to
\* a = sin^2(dLat/2), c = |dLat|, R * c.  Latitudes are counted in metres of
\* arc (degrees * pi/180 * R), so the result is |lat2 - lat1| metres.  Every
\* modelled point has the same longitude.
haversineMeters(lat1, lon1, lat2, lon2) == Abs(lat2 - lat1)

\* The test of one edge (i, j) against the ray from the point:
\*   yi > y !== yj > y && x < ((xj - xi) * (y - yi)) / (yj - yi + 0.0) + xi
\* The first conjunct makes yj - yi non-zero; the division is carried out
\* exactly by multiplying both sides with yj - yi, turning the comparison
\* when that is negative.  On integer coordinates the quotient's rounding
\* never moves it across the integer x - xi.
Intersect(x, y, xi, yi, xj, yj) ==
  /\ (yi > y) # (yj > y)
  /\ IF yj - yi > 0
       THEN (x - xi) * (yj - yi) < (xj - xi) * (y - yi)
       ELSE (x - xi) * (yj - yi) > (xj - xi) * (y - yi)

\* The loop with `if (intersect) inside = true`: a crossing sets the flag
\* instead of flipping it.
RECURSIVE PointInPolygonFrom_NoToggle(_, _, _, _, _)
PointInPolygonFrom_NoToggle(point, polygon, i, j, inside) ==
  IF i > Len(polygon) THEN inside
  ELSE LET intersect == Intersect(point[2], point[1],
                                  polygon[i][2], polygon[i][1],
                                  polygon[j][2], polygon[j][1])
       IN PointInPolygonFrom_NoToggle(point, polygon, i + 1, i,
                                      inside \/ intersect)

\* for (let i = 0, j = polygon.length - 1; i < polygon.length; j = i++)
\* from the iteration (i, j) on, indices counted from 1; a vertex is
\* <<lat, lng>>, so y is its first and x its second component.
RECURSIVE PointInPolygonFrom(_, _, _, _, _)
PointInPolygonFrom(point, polygon, i, j, inside) ==
  IF i > Len(polygon) THEN inside
  ELSE LET intersect == Intersect(point[2], point[1],
                                  polygon[i][2], polygon[i][1],
                                  polygon[j][2], polygon[j][1])
       IN PointInPolygonFrom(point, polygon, i + 1, i,
                             IF intersect THEN ~inside ELSE inside)

\* The loop over the open chain of edges, `for (let i = 1, j = 0; ...)`:
\* the edge from the last vertex back to the first is left out.
pointInPolygon_OpenChain(point, polygon) ==
  PointInPolygonFrom(point, polygon, 2, 1, FALSE)

pointInPolygon(point, polygon) ==
  PointInPolygonFrom(point, polygon, 1, Len(polygon), FALSE)

\* A distance is carried as its square, an exact fraction <<numerator,
\* denominator>>: Math.sqrt is increasing, so d < min compares the squares.
\* `let min = Infinity` is the fraction <<1, 0>>, above every distance.
Infinity == <<1, 0>>
ZeroDistance == <<0, 1>>
LessThan(d, e) == d[1] * e[2] < e[1] * d[2]
SameDistance(d, e) == d[1] * e[2] = e[1] * d[2]

\* _distancePointToSegmentMeters(p, a, b) in the local planar frame, counted
\* in units in which latScale and lonScale are both 1 (the cosine of the
\* segment's mean latitude taken as 1).  t = max(0, min(1, dot / (ab2 || 1)))
\* is 0 when dot <= 0 (also when a = b), 1 when dot >= ab2, and dot / ab2
\* in between, where the squared distance is (|ap|^2 * ab2 - dot^2) / ab2.
distancePointToSegmentMeters(p, a, b) ==
  LET px == p[2]
      py == p[1]
      ax == a[2]
      ay == a[1]
      bx == b[2]
      by == b[1]
      abx == bx - ax
      aby == by - ay
      apx == px - ax
      apy == py - ay
      ab2 == abx * abx + aby * aby
      dot == apx * abx + apy * aby
  IN IF dot <= 0 THEN <<apx * apx + apy * apy, 1>>
     ELSE IF dot >= ab2
            THEN <<(px - bx) * (px - bx) + (py - by) * (py - by), 1>>
            ELSE <<(apx * apx + apy * apy) * ab2 - dot * dot, ab2>>

\* The loop that stops one edge early, `i < polygon.length - 1`: the edge
\* from the last vertex back to the first is never measured.
RECURSIVE MinDistanceFrom_NoClosingEdge(_, _, _, _)
MinDistanceFrom_NoClosingEdge(point, polygon, i, min) ==
  IF i >= Len(polygon) THEN min
  ELSE LET a == polygon[i]
           b == polygon[(i % Len(polygon)) + 1]
           d == distancePointToSegmentMeters(point, a, b)
       IN MinDistanceFrom_NoClosingEdge(point, polygon, i + 1,
                                        IF LessThan(d, min) THEN d ELSE min)

\* for (let i = 0; i < polygon.length; i++) from the i-th vertex on, indices
\* counted from 1: b = polygon[(i + 1) % polygon.length].
RECURSIVE MinDistanceFrom(_, _, _, _)
MinDistanceFrom(point, polygon, i, min) ==
  IF i > Len(polygon) THEN min
  ELSE LET a == polygon[i]
           b == polygon[(i % Len(polygon)) + 1]
           d == distancePointToSegmentMeters(point, a, b)
       IN MinDistanceFrom(point, polygon, i + 1,
                          IF LessThan(d, min) THEN d ELSE min)

distanceToPolygonMeters(point, polygon) ==
  IF pointInPolygon(point, polygon) THEN ZeroDistance
  ELSE MinDistanceFrom(point, polygon, 1, Infinity)

\* The loop with a falsy test on the distance, `if (!d) continue`: a POI at
\* distance 0 is passed over.
RECURSIVE ClosestFrom_SkipsZero(_, _, _, _, _)
ClosestFrom_SkipsZero(pois, user, radiusMeters, i, closest) ==
  IF i > Len(pois) THEN closest
  ELSE LET poi == pois[i]
       IN IF poi.typeofLat # "number" \/ poi.typeofLng # "number"
            THEN ClosestFrom_SkipsZero(pois, user, radiusMeters, i + 1, closest)
            ELSE LET d == haversineMeters(user[1], user[2], poi.lat, poi.lng)
                 IN IF d # 0 /\ d <= radiusMeters
                            /\ (closest = Null \/ d < closest[2])
                      THEN ClosestFrom_SkipsZero(pois, user, radiusMeters,
                                                 i + 1, <<i, d>>)
                      ELSE ClosestFrom_SkipsZero(pois, user, radiusMeters,
                                                 i + 1, closest)

\* The loop with `d < radiusMeters`: a POI exactly at the radius is left out.
RECURSIVE ClosestFrom_StrictRadius(_, _, _, _, _)
ClosestFrom_StrictRadius(pois, user, radiusMeters, i, closest) ==
  IF i > Len(pois) THEN closest
  ELSE LET poi == pois[i]
       IN IF poi.typeofLat # "number" \/ poi.typeofLng # "number"
            THEN ClosestFrom_StrictRadius(pois, user, radiusMeters, i + 1, closest)
            ELSE LET d == haversineMeters(user[1], user[2], poi.lat, poi.lng)
                 IN IF d < radiusMeters /\ (closest = Null \/ d < closest[2])
                      THEN ClosestFrom_StrictRadius(pois, user, radiusMeters, i + 1, <<i, d>>)
                      ELSE ClosestFrom_StrictRadius(pois, user, radiusMeters, i + 1, closest)

\* The loop with `d <= best`: a later POI at the same distance replaces the
\* earlier one.
RECURSIVE ClosestFrom_LastWins(_, _, _, _, _)
ClosestFrom_LastWins(pois, user, radiusMeters, i, closest) ==
  IF i > Len(pois) THEN closest
  ELSE LET poi == pois[i]
       IN IF poi.typeofLat # "number" \/ poi.typeofLng # "number"
            THEN ClosestFrom_LastWins(pois, user, radiusMeters, i + 1, closest)
            ELSE LET d == haversineMeters(user[1], user[2], poi.lat, poi.lng)
                 IN IF d <= radiusMeters /\ (closest = Null \/ d <= closest[2])
                      THEN ClosestFrom_LastWins(pois, user, radiusMeters, i + 1, <<i, d>>)
                      ELSE ClosestFrom_LastWins(pois, user, radiusMeters, i + 1, closest)

\* The loop without the typeof tests: haversineMeters coerces a string
\* coordinate to its number (a missing one makes the distance NaN, which
\* fails every comparison).
RECURSIVE ClosestFrom_NoTypeTest(_, _, _, _, _)
ClosestFrom_NoTypeTest(pois, user, radiusMeters, i, closest) ==
  IF i > Len(pois) THEN closest
  ELSE LET poi == pois[i]
       IN IF poi.typeofLat = "undefined" \/ poi.typeofLng = "undefined"
            THEN ClosestFrom_NoTypeTest(pois, user, radiusMeters, i + 1, closest)
            ELSE LET d == haversineMeters(user[1], user[2], poi.lat, poi.lng)
                 IN IF d <= radiusMeters /\ (closest = Null \/ d < closest[2])
                      THEN ClosestFrom_NoTypeTest(pois, user, radiusMeters, i + 1, <<i, d>>)
                      ELSE ClosestFrom_NoTypeTest(pois, user, radiusMeters, i + 1, closest)

\* The body of `for (const poi of pois)` from the i-th POI on; closest is the
\* running { poi, distance } (Null while best = Infinity).
RECURSIVE ClosestFrom(_, _, _, _, _)
ClosestFrom(pois, user, radiusMeters, i, closest) ==
  IF i > Len(pois) THEN closest
  ELSE LET poi == pois[i]
       IN IF poi.typeofLat # "number" \/ poi.typeofLng # "number"
            THEN ClosestFrom(pois, user, radiusMeters, i + 1, closest)
            ELSE LET d == haversineMeters(user[1], user[2], poi.lat, poi.lng)
                 IN IF d <= radiusMeters /\ (closest = Null \/ d < closest[2])
                      THEN ClosestFrom(pois, user, radiusMeters, i + 1, <<i, d>>)
                      ELSE ClosestFrom(pois, user, radiusMeters, i + 1, closest)

\* if (!user || !Array.isArray(pois) || !pois.length) return null;
getClosestPoiWithinRadius(pois, user, radiusMeters) ==
  IF user = Null \/ ~pois.isArray \/ Len(pois.items) = 0 THEN Null
  ELSE ClosestFrom(pois.items, user, radiusMeters, 1, Null)

\* One call of a geo.js function on its own: the arguments, and the value
\* returned once the call has run.
VARIABLE geoCall

\* no call of this kind is being followed
NoCall == [fn |-> "none"]

\* longest POI list passed to getClosestPoiWithinRadius
MaxPois == 3

\* POIs of a list: on the meridian at -2, 0, 2 and 5 m, one whose lat is the
\* string "0" and one whose lng is missing.
GeoPois ==
  { [lat |-> l, lng |-> 0, typeofLat |-> "number", typeofLng |-> "number"] :
      l \in {-2, 0, 2, 5} }
  \cup { [lat |-> 0, lng |-> 0, typeofLat |-> "string", typeofLng |-> "number"],
         [lat |-> 0, lng |-> 0, typeofLat |-> "number",
          typeofLng |-> "undefined"] }

\* the user argument: null, or a position on the meridian
GeoUsers == { Null, <<0, 0>>, <<1, 0>> }

GeoRadii == { 1, 2, 3 }

SeqsUpTo(S, n) == UNION { [1..k -> S] : k \in 0..n }

\* the pois argument: an array of at most MaxPois POIs, or no array
GeoPoisArgs == { Array(items) : items \in SeqsUpTo(GeoPois, MaxPois) }
                 \cup { NotAnArray }

ClosestCalls ==
  { [fn |-> "getClosestPoiWithinRadius", pois |-> ps, user |-> u,
     radiusMeters |-> r, done |-> FALSE, ret |-> Null] :
      ps \in GeoPoisArgs, u \in GeoUsers, r \in GeoRadii }

\* most vertices of a polygon passed to pointInPolygon
MaxPolyLen == 4

\* vertices: the corners of a square of side 2
GeoVertices == { <<lat, lng>> : lat \in {0, 2}, lng \in {0, 2} }

\* points tested: the grid around and inside that square
GeoPoints == { <<lat, lng>> : lat \in -1..3, lng \in -1..3 }

PolygonCalls ==
  { [fn |-> "pointInPolygon", point |-> pt, polygon |-> poly,
     done |-> FALSE, ret |-> FALSE] :
      pt \in GeoPoints, poly \in SeqsUpTo(GeoVertices, MaxPolyLen) }

DistanceCalls ==
  { [fn |-> "distanceToPolygonMeters", point |-> pt, polygon |-> poly,
     done |-> FALSE, ret |-> ZeroDistance] :
      pt \in GeoPoints, poly \in SeqsUpTo(GeoVertices, MaxPolyLen) }

CallDistanceToPolygon ==
  /\ geoCall.fn = "distanceToPolygonMeters" /\ ~geoCall.done
  /\ geoCall' = [geoCall EXCEPT
        !.done = TRUE,
        !.ret = distanceToPolygonMeters(geoCall.point, geoCall.polygon)]

CallPointInPolygon ==
  /\ geoCall.fn = "pointInPolygon" /\ ~geoCall.done
  /\ geoCall' = [geoCall EXCEPT
        !.done = TRUE,
        !.ret = pointInPolygon(geoCall.point, geoCall.polygon)]

\* the call runs and returns
CallClosest ==
  /\ geoCall.fn = "getClosestPoiWithinRadius" /\ ~geoCall.done
  /\ geoCall' = [geoCall EXCEPT
        !.done = TRUE,
        !.ret = getClosestPoiWithinRadius(geoCall.pois, geoCall.user,
                                          geoCall.radiusMeters)]
(***************************************************************************)
(* Sitemap.jsx: geolocation watch and the Talking Trees scanner            *)
(***************************************************************************)
\* scans (reads of new Date()) in one run
MaxClock == 4
\* the highest watch id navigator.geolocation hands out in one run
MaxWatches == 2

\* the radius passed by scan: getClosestPoiWithinRadius(pois, userPos, 3.0)
ScanRadius == 3

\* The first id navigator.geolocation.watchPosition may hand out.  The id is
\* a long chosen by the geolocation source; startWatch stores whatever comes
\* back, so the source's first id is an input of the first call: 1 as in the
\* browsers that count from one, 0 for a source that counts from zero.
FirstWatchIds == {0, 1}

\* geoNextId before the source has handed out any id
NoIdYet == -1

\* mapData.pois after the useMemo filter (name a string, lat and lng
\* numbers): two Talking Trees 8 m apart on the meridian, the first with a
\* recording, the second without (audioSrc undefined).
pois ==
  Array(<< [name |-> "tree-a", lat |-> 0, lng |-> 0,
            typeofLat |-> "number", typeofLng |-> "number",
            audioSrc |-> "tree-a.mp3"],
           [name |-> "tree-b", lat |-> 8, lng |-> 0,
            typeofLat |-> "number", typeofLng |-> "number",
            audioSrc |-> ""] >>)

\* Positions the geolocation source may deliver: on tree-a, exactly 3 m from
\* it, 4 m from both trees, 2 m from tree-b.
Positions == { <<0, 0>>, <<3, 0>>, <<4, 0>>, <<6, 0>> }

VARIABLES
  watching,        \* useState(false)
  userPos,         \* useState(null): the value of the latest setUserPos
  watchIdRef,      \* useRef(null).current: Null or <<id>>
  closestPoi3m,    \* useState(null)
  lastCheckedAt,   \* useState(null): 0 is null, else the clock of the scan
  timers,          \* live setInterval timers, each with the userPos its scan
                   \* closure captured and the clock at which it was armed
  effectTimer,     \* the timer the scan effect's cleanup will clear
  effectPending,   \* a dependency of the scan effect changed in a callback
                   \* that React has not rendered yet
  geoWatches,      \* watch ids registered with navigator.geolocation
  geoNextId,       \* the id the next watchPosition returns (NoIdYet before
                   \* the first call, when the source picks its first id)
  lateCallback,    \* a success callback was already queued when its watch
                   \* was cleared
  clock,           \* number of scans so far (the time new Date() reads)
  mapOp            \* the handler that ran last

mapVars == <<watching, userPos, watchIdRef, closestPoi3m, lastCheckedAt,
             timers, effectTimer, effectPending, geoWatches, geoNextId,
             lateCallback, clock, mapOp>>

\* Sitemap.jsx: the audio element of the Talking Trees panel
VARIABLES
  isPlaying,       \* useState(false)
  playPending,     \* a promise returned by audioRef.current.play() has not
                   \* settled yet
  audioPlaying     \* the audio element is playing

audioVars == <<isPlaying, playPending, audioPlaying>>

\* WeatherWidget.jsx
VARIABLES
  weather,         \* useState(null): NoWeather or the data shown
  loading,         \* useState(true)
  error,           \* useState(null): NoError or the message
  cache,           \* localStorage under CACHE_KEY
  now,             \* Date.now(), in units of five minutes
  mounted,         \* the mounted instance of the widget, 0 when none is
  mounts,          \* instances mounted so far
  requests,        \* calls of fetchWeatherApi so far
  inflight,        \* requests not settled yet, each with its instance
  nextRefresh,     \* when the mounted instance's setInterval fires next
  weatherOp        \* what ran last

weatherVars == <<weather, loading, error, cache, now, mounted, mounts,
                 requests, inflight, nextRefresh, weatherOp>>

vars == <<isLocked, activeSynthesizer, nSynth, synths, lastOp,
          watching, userPos, watchIdRef, closestPoi3m, lastCheckedAt,
          timers, effectTimer, effectPending, geoWatches, geoNextId,
          lateCallback, clock, mapOp, isPlaying, playPending, audioPlaying,
          geoCall,
          weather, loading, error, cache, now, mounted, mounts,
          requests, inflight, nextRefresh, weatherOp>>

\* The state after the first render and its effects: the scan effect ran with
\* watching = false and set closestPoi3m to null.
InitMap ==
  /\ watching = FALSE
  /\ userPos = Null
  /\ watchIdRef = Null
  /\ closestPoi3m = Null
  /\ lastCheckedAt = 0
  /\ timers = {}
  /\ effectTimer = Null
  /\ effectPending = FALSE
  /\ geoWatches = {}
  /\ geoNextId = NoIdYet
  /\ lateCallback = FALSE
  /\ clock = 0
  /\ mapOp = "mount"
  /\ isPlaying = FALSE
  /\ playPending = FALSE
  /\ audioPlaying = FALSE

\* JavaScript truthiness of watchIdRef.current
Truthy(ref) == ref # Null /\ ref[1] # 0

\* const scan = () => { try { res = getClosestPoiWithinRadius(pois, userPos,
\* 3.0); setClosestPoi3m(res); setLastCheckedAt(new Date()) } catch ... }
\* with the userPos its closure captured.
scan(pos) ==
  [closestPoi3m  |-> getClosestPoiWithinRadius(pois, pos, ScanRadius),
   lastCheckedAt |-> clock + 1,
   clock         |-> clock + 1]

\* The scan effect re-armed without its cleanup: the old interval survives.
ScanEffect_NoCleanup(w, pos) ==
  IF ~w \/ pos = Null
    THEN [closestPoi3m |-> Null, lastCheckedAt |-> lastCheckedAt,
          clock |-> clock, timers |-> timers, effectTimer |-> Null]
    ELSE LET r == scan(pos)
             t == [pos |-> pos, armedAt |-> r.clock]
         IN [closestPoi3m |-> r.closestPoi3m, lastCheckedAt |-> r.lastCheckedAt,
             clock |-> r.clock, timers |-> timers \cup {t},
             effectTimer |-> <<t>>]

\* The scan effect that tests only `!watching`: it scans and arms the timer
\* before any position arrived.
ScanEffect_NoPosTest(w, pos) ==
  LET cleaned == IF effectTimer = Null THEN timers
                 ELSE timers \ {effectTimer[1]}
  IN IF ~w
       THEN [closestPoi3m |-> Null, lastCheckedAt |-> lastCheckedAt,
             clock |-> clock, timers |-> cleaned, effectTimer |-> Null]
       ELSE LET r == scan(pos)
                t == [pos |-> pos, armedAt |-> r.clock]
            IN [closestPoi3m |-> r.closestPoi3m,
                lastCheckedAt |-> r.lastCheckedAt,
                clock |-> r.clock, timers |-> cleaned \cup {t},
                effectTimer |-> <<t>>]

\* The scan effect that tests only `!userPos`: a position delivered after
\* Stop is scanned and arms a timer.
ScanEffect_NoWatchTest(w, pos) ==
  LET cleaned == IF effectTimer = Null THEN timers
                 ELSE timers \ {effectTimer[1]}
  IN IF pos = Null
       THEN [closestPoi3m |-> Null, lastCheckedAt |-> lastCheckedAt,
             clock |-> clock, timers |-> cleaned, effectTimer |-> Null]
       ELSE LET r == scan(pos)
                t == [pos |-> pos, armedAt |-> r.clock]
            IN [closestPoi3m |-> r.closestPoi3m,
                lastCheckedAt |-> r.lastCheckedAt,
                clock |-> r.clock, timers |-> cleaned \cup {t},
                effectTimer |-> <<t>>]

\* useEffect(..., [watching, userPos, pois]) run for the values (w, pos) of a
\* render whose dependencies changed: first the cleanup of the previous run
\* (clearInterval), then the body.
ScanEffect(w, pos) ==
  LET cleaned == IF effectTimer = Null THEN timers
                 ELSE timers \ {effectTimer[1]}
  IN IF ~w \/ pos = Null
       THEN \* setClosestPoi3m(null); return
            [closestPoi3m |-> Null, lastCheckedAt |-> lastCheckedAt,
             clock |-> clock, timers |-> cleaned, effectTimer |-> Null]
       ELSE \* scan(); const id = setInterval(scan, 15000)
            LET r == scan(pos)
                t == [pos |-> pos, armedAt |-> r.clock]
            IN [closestPoi3m |-> r.closestPoi3m,
                lastCheckedAt |-> r.lastCheckedAt,
                clock |-> r.clock, timers |-> cleaned \cup {t},
                effectTimer |-> <<t>>]

\* The effect scans only while the clock has not reached its bound.
CanRunEffect(w, pos) == (w /\ pos # Null) => clock < MaxClock

ApplyEffect(e) ==
  /\ closestPoi3m' = e.closestPoi3m
  /\ lastCheckedAt' = e.lastCheckedAt
  /\ clock' = e.clock
  /\ timers' = e.timers
  /\ effectTimer' = e.effectTimer
  /\ effectPending' = FALSE

\* onClick of "YOU ARE HERE".  A click is rendered synchronously, effects
\* included, before any other callback runs.
startWatch ==
  \E hasGeolocation \in BOOLEAN :
    IF ~hasGeolocation \/ Truthy(watchIdRef)
      THEN \* early return
           /\ mapOp' = "startWatch"
           /\ UNCHANGED <<watching, userPos, watchIdRef, closestPoi3m,
                          lastCheckedAt, timers, effectTimer, effectPending,
                          geoWatches, geoNextId, lateCallback, clock>>
      ELSE \E id \in (IF geoNextId = NoIdYet THEN FirstWatchIds
                                              ELSE {geoNextId}) :
           /\ id <= MaxWatches
           /\ geoWatches' = geoWatches \cup {id}
           /\ geoNextId' = id + 1
           /\ watchIdRef' = <<id>>
           /\ watching' = TRUE
           /\ IF watching
                THEN \* setWatching(true) changes nothing: no render
                     UNCHANGED <<closestPoi3m, lastCheckedAt, clock, timers,
                                 effectTimer, effectPending>>
                ELSE /\ CanRunEffect(TRUE, userPos)
                     /\ ApplyEffect(ScanEffect(TRUE, userPos))
           /\ mapOp' = "startWatch"
           /\ UNCHANGED <<userPos, lateCallback>>

\* A Stop handler that flips the flag, setWatching((w) => !w), instead of
\* clearing it.
stopWatch_Toggle ==
  \E late \in BOOLEAN :
    /\ geoWatches' = IF Truthy(watchIdRef)
                       THEN geoWatches \ {watchIdRef[1]} ELSE geoWatches
    /\ lateCallback' = (lateCallback \/
                          (late /\ Truthy(watchIdRef)
                                /\ watchIdRef[1] \in geoWatches))
    /\ watchIdRef' = Null
    /\ watching' = ~watching
    /\ userPos' = Null
    /\ ApplyEffect(ScanEffect(~watching, Null))
    /\ mapOp' = "stopWatch"
    /\ UNCHANGED geoNextId

\* onClick of "Stop".  late: the geolocation source had already queued a
\* success callback of the watch being cleared.
stopWatch ==
  \E late \in BOOLEAN :
    /\ geoWatches' = IF Truthy(watchIdRef)
                       THEN geoWatches \ {watchIdRef[1]} ELSE geoWatches
    /\ lateCallback' = (lateCallback \/
                          (late /\ Truthy(watchIdRef)
                                /\ watchIdRef[1] \in geoWatches))
    /\ watchIdRef' = Null
    /\ watching' = FALSE
    /\ userPos' = Null
    /\ IF watching \/ userPos # Null \/ effectPending
         THEN \* the dependencies changed: cleanup, then the body, which
              \* sets closestPoi3m to null again
              ApplyEffect(ScanEffect(FALSE, Null))
         ELSE /\ closestPoi3m' = Null
              /\ UNCHANGED <<lastCheckedAt, clock, timers, effectTimer,
                             effectPending>>
    /\ mapOp' = "stopWatch"
    /\ UNCHANGED geoNextId

\* The success callback of watchPosition: setUserPos({ lat, lng }).  The new
\* object is a changed dependency even when the coordinates repeat.  The
\* callback is not a click: React renders it, and runs the effect, later.
PositionCallback(pos, late) ==
  /\ IF late THEN lateCallback ELSE geoWatches # {}
  /\ lateCallback' = IF late THEN FALSE ELSE lateCallback
  /\ userPos' = pos
  /\ effectPending' = TRUE
  /\ mapOp' = "position"
  /\ UNCHANGED <<watching, watchIdRef, closestPoi3m, lastCheckedAt, timers,
                 effectTimer, geoWatches, geoNextId, clock>>

\* The error callback of watchPosition: console.warn only.
GeoErrorCallback ==
  /\ geoWatches # {}
  /\ mapOp' = "geoError"
  /\ UNCHANGED <<watching, userPos, watchIdRef, closestPoi3m, lastCheckedAt,
                 timers, effectTimer, effectPending, geoWatches, geoNextId,
                 lateCallback, clock>>

\* React renders the pending update and runs the scan effect.
RunScanEffect ==
  /\ effectPending
  /\ CanRunEffect(watching, userPos)
  /\ ApplyEffect(ScanEffect(watching, userPos))
  /\ mapOp' = "effect"
  /\ UNCHANGED <<watching, userPos, watchIdRef, geoWatches, geoNextId,
                 lateCallback>>

\* A tick of one setInterval timer: its scan closure runs with the userPos
\* it captured.
TimerTick(t) ==
  /\ t \in timers
  /\ clock < MaxClock
  /\ LET r == scan(t.pos)
     IN /\ closestPoi3m' = r.closestPoi3m
        /\ lastCheckedAt' = r.lastCheckedAt
        /\ clock' = r.clock
  /\ mapOp' = "tick"
  /\ UNCHANGED <<watching, userPos, watchIdRef, timers, effectTimer,
                 effectPending, geoWatches, geoNextId, lateCallback>>

\* A catch branch that publishes "none" when the scan raised.
scanCaught_ClearsResult ==
  [closestPoi3m |-> Null, lastCheckedAt |-> lastCheckedAt, clock |-> clock]

\* scan when its try block raises in getClosestPoiWithinRadius: control goes
\* to catch (e) { console.error("Scan error:", e) } before either setter ran.
scanCaught ==
  [closestPoi3m |-> closestPoi3m, lastCheckedAt |-> lastCheckedAt,
   clock |-> clock]

\* A tick whose scan raises.
TimerTickThrows(t) ==
  /\ t \in timers
  /\ LET r == scanCaught
     IN /\ closestPoi3m' = r.closestPoi3m
        /\ lastCheckedAt' = r.lastCheckedAt
        /\ clock' = r.clock
  /\ mapOp' = "tickThrew"
  /\ UNCHANGED <<watching, userPos, watchIdRef, timers, effectTimer,
                 effectPending, geoWatches, geoNextId, lateCallback>>

\* A run of the scan effect whose first scan() raises: the exception is
\* caught inside scan, so the effect goes on to setInterval.
RunScanEffectThrows ==
  /\ effectPending /\ watching /\ userPos # Null
  /\ LET cleaned == IF effectTimer = Null THEN timers
                    ELSE timers \ {effectTimer[1]}
         r == scanCaught
         t == [pos |-> userPos, armedAt |-> r.clock]
     IN ApplyEffect([closestPoi3m |-> r.closestPoi3m,
                     lastCheckedAt |-> r.lastCheckedAt,
                     clock |-> r.clock, timers |-> cleaned \cup {t},
                     effectTimer |-> <<t>>])
  /\ mapOp' = "effectThrew"
  /\ UNCHANGED <<watching, userPos, watchIdRef, geoWatches, geoNextId,
                 lateCallback>>

(***************************************************************************)
(* Sitemap.jsx: the Play and Stop controls of the Talking Trees panel      *)
(***************************************************************************)
\* What the audio handlers leave alone.
sessionVars == <<watching, userPos, watchIdRef, closestPoi3m, lastCheckedAt,
                 timers, effectTimer, effectPending, geoWatches, geoNextId,
                 lateCallback, clock>>

\* The panel's render: {closestPoi3m && (!isPlaying ? <Play/> : <Stop/>)}
PlayRendered == closestPoi3m # Null /\ ~isPlaying
StopRendered == closestPoi3m # Null /\ isPlaying

\* onClick of "Play Audio".  Without an audioSrc it returns at once.
\* Otherwise pause() (which rejects a play() promise still pending, whose
\* catch sets isPlaying to false), then play(): it raises (catch:
\* setIsPlaying(false)), returns a promise, or returns no promise
\* (setIsPlaying(true)).
handlePlayPoiAudio ==
  /\ PlayRendered
  /\ IF pois.items[closestPoi3m[1]].audioSrc = ""
       THEN UNCHANGED audioVars
       ELSE \E outcome \in {"threw", "promise", "started"} :
              /\ isPlaying' = (outcome = "started")
              /\ playPending' = (outcome = "promise")
              /\ audioPlaying' = (outcome = "started")
  /\ mapOp' = "play"
  /\ UNCHANGED sessionVars

\* The promise of play() settles: then(() => setIsPlaying(true)) or
\* catch((e) => { console.warn(...); setIsPlaying(false) }).
PlaySettled(fulfilled) ==
  /\ playPending
  /\ playPending' = FALSE
  /\ isPlaying' = fulfilled
  /\ audioPlaying' = fulfilled
  /\ mapOp' = IF fulfilled THEN "playStarted" ELSE "playBlocked"
  /\ UNCHANGED sessionVars

\* The "ended" listener of the audio element: setIsPlaying(false).
onEnded ==
  /\ audioPlaying
  /\ audioPlaying' = FALSE
  /\ isPlaying' = FALSE
  /\ mapOp' = "ended"
  /\ UNCHANGED <<playPending, sessionVars>>

\* onClick of "Stop": pause(); currentTime = 0; setIsPlaying(false).
handleStopAudio ==
  /\ StopRendered
  /\ audioPlaying' = FALSE
  /\ playPending' = FALSE
  /\ isPlaying' = FALSE
  /\ mapOp' = "stopAudio"
  /\ UNCHANGED sessionVars

(***************************************************************************)
(* WeatherWidget.jsx: the cached weather fetch                             *)
(***************************************************************************)
\* Time is counted in units of five minutes.
\* the last instant of a run
MaxNow == 7
\* instances of the widget mounted in one run
MaxMounts == 2
\* calls of fetchWeatherApi in one run
MaxRequests == 3

\* const CACHE_DURATION = 15 * 60 * 1000
CACHE_DURATION == 3
\* setInterval(fetchWeather, 900000)
RefreshInterval == 3
\* the instant the page is loaded
PageLoad == 3

\* useState(null) for weather and for error
NoWeather == 0
NoError == "null"

\* the data a cache entry of an earlier visit holds, and the data the
\* request numbered id delivers
EarlierData == 1
DataOf(id) == id + 1

\* localStorage.getItem(CACHE_KEY): null, a string JSON.parse rejects, or
\* the JSON of { data, timestamp }
CacheMissing == [kind |-> "missing", data |-> NoWeather, timestamp |-> 0]
CacheUnreadable == [kind |-> "unreadable", data |-> NoWeather, timestamp |-> 0]
CacheEntry(data, timestamp) ==
  [kind |-> "entry", data |-> data, timestamp |-> timestamp]

\* getCachedWeather at instant t: the entry's data if it parses and
\* t - timestamp < CACHE_DURATION, else null (also after the catch).
getCachedWeather(c, t) ==
  IF c.kind = "entry" /\ t - c.timestamp < CACHE_DURATION
    THEN c.data ELSE NoWeather

\* setCachedWeather(data) at instant t; setItemThrows: localStorage.setItem
\* raises (quota, storage disabled), which the catch logs.
setCachedWeather(c, data, t, setItemThrows) ==
  IF setItemThrows THEN c ELSE CacheEntry(data, t)

\* what the widget renders
Display ==
  IF loading THEN "Loading..."
  ELSE IF error # NoError \/ weather = NoWeather THEN "Weather unavailable"
  ELSE "weather"

\* No widget is mounted and nothing is cached.
InitWeatherIdle ==
  /\ weather = NoWeather
  /\ loading = TRUE
  /\ error = NoError
  /\ cache = CacheMissing
  /\ now = PageLoad
  /\ mounted = 0
  /\ mounts = 0
  /\ requests = 0
  /\ inflight = {}
  /\ nextRefresh = 0
  /\ weatherOp = "load"

\* The page is loaded with whatever an earlier visit left under CACHE_KEY:
\* nothing, an unreadable string, or an entry 0 to 15 minutes old.
InitWeather ==
  /\ weather = NoWeather
  /\ loading = TRUE
  /\ error = NoError
  /\ cache \in {CacheMissing, CacheUnreadable}
               \cup { CacheEntry(EarlierData, ts) : ts \in 0..PageLoad }
  /\ now = PageLoad
  /\ mounted = 0
  /\ mounts = 0
  /\ requests = 0
  /\ inflight = {}
  /\ nextRefresh = 0
  /\ weatherOp = "load"

\* fetchWeather up to its await: the request goes out.
StartFetch(instance) ==
  /\ requests < MaxRequests
  /\ requests' = requests + 1
  /\ inflight' = inflight \cup {[id |-> requests + 1, instance |-> instance]}

\* The mount effect that fetches whatever the cache holds.
MountWidget_AlwaysFetch ==
  /\ mounted = 0
  /\ mounts < MaxMounts
  /\ mounts' = mounts + 1
  /\ mounted' = mounts + 1
  /\ LET cachedWeather == getCachedWeather(cache, now)
     IN /\ IF cachedWeather # NoWeather
             THEN weather' = cachedWeather /\ error' = NoError
                  /\ loading' = FALSE
             ELSE weather' = NoWeather /\ error' = NoError
                  /\ loading' = TRUE
        /\ StartFetch(mounts + 1)
  /\ nextRefresh' = now + RefreshInterval
  /\ weatherOp' = "mount"
  /\ UNCHANGED <<cache, now>>

\* A new instance renders with its useState initial values and runs the
\* mount effect: cache first, a fetch only without cached data, then
\* setInterval.
MountWidget ==
  /\ mounted = 0
  /\ mounts < MaxMounts
  /\ mounts' = mounts + 1
  /\ mounted' = mounts + 1
  /\ LET cachedWeather == getCachedWeather(cache, now)
     IN IF cachedWeather # NoWeather
          THEN /\ weather' = cachedWeather
               /\ error' = NoError
               /\ loading' = FALSE
               /\ UNCHANGED <<requests, inflight>>
          ELSE /\ weather' = NoWeather
               /\ error' = NoError
               /\ loading' = TRUE
               /\ StartFetch(mounts + 1)
  /\ nextRefresh' = now + RefreshInterval
  /\ weatherOp' = "mount"
  /\ UNCHANGED <<cache, now>>

\* The effect's cleanup: clearInterval.  Requests in flight stay in flight.
UnmountWidget ==
  /\ mounted # 0
  /\ mounted' = 0
  /\ weatherOp' = "unmount"
  /\ UNCHANGED <<weather, loading, error, cache, now, mounts, requests,
                 inflight, nextRefresh>>

\* The 15-minute interval fires: fetchWeather again.
RefreshTick ==
  /\ mounted # 0
  /\ now = nextRefresh
  /\ StartFetch(mounted)
  /\ nextRefresh' = now + RefreshInterval
  /\ weatherOp' = "refresh"
  /\ UNCHANGED <<weather, loading, error, cache, now, mounted, mounts>>

\* Five minutes pass; a due interval fires first.
TimePasses ==
  /\ now < MaxNow
  /\ mounted # 0 => now < nextRefresh
  /\ now' = now + 1
  /\ weatherOp' = "time"
  /\ UNCHANGED <<weather, loading, error, cache, mounted, mounts, requests,
                 inflight, nextRefresh>>

\* The catch branch that reports the error whatever the cache holds.
FetchFails_IgnoresCache(f) ==
  /\ f \in inflight
  /\ inflight' = inflight \ {f}
  /\ IF f.instance = mounted
       THEN weather' = weather /\ error' = "message" /\ loading' = FALSE
       ELSE UNCHANGED <<weather, error, loading>>
  /\ weatherOp' = IF f.instance = mounted THEN "fetchFailed"
                  ELSE "fetchFailedUnmounted"
  /\ UNCHANGED <<cache, now, mounted, mounts, requests, nextRefresh>>

\* The await resolves and the try block runs to its end: setWeather(data),
\* setCachedWeather(data), setError(null), finally setLoading(false).  The
\* setters of an instance that was unmounted do nothing.
FetchSucceeds(f, setItemThrows) ==
  /\ f \in inflight
  /\ inflight' = inflight \ {f}
  /\ cache' = setCachedWeather(cache, DataOf(f.id), now, setItemThrows)
  /\ IF f.instance = mounted
       THEN weather' = DataOf(f.id) /\ error' = NoError /\ loading' = FALSE
       ELSE UNCHANGED <<weather, error, loading>>
  /\ weatherOp' = IF setItemThrows THEN "fetchOkNotCached" ELSE "fetchOk"
  /\ UNCHANGED <<now, mounted, mounts, requests, nextRefresh>>

\* The await rejects, or the try block raises: catch, then finally.
FetchFails(f) ==
  /\ f \in inflight
  /\ inflight' = inflight \ {f}
  /\ LET cached == getCachedWeather(cache, now)
     IN IF f.instance = mounted
          THEN /\ IF cached # NoWeather
                    THEN weather' = cached /\ error' = NoError
                    ELSE weather' = weather /\ error' = "message"
               /\ loading' = FALSE
          ELSE UNCHANGED <<weather, error, loading>>
  /\ weatherOp' = IF f.instance = mounted THEN "fetchFailed"
                  ELSE "fetchFailedUnmounted"
  /\ UNCHANGED <<cache, now, mounted, mounts, requests, nextRefresh>>

(***************************************************************************)
(* Specifications                                                          *)
(***************************************************************************)
Init == InitTTS /\ InitMap /\ geoCall = NoCall /\ InitWeatherIdle

\* A call of a geo.js function with arguments drawn from the bounded sets.
InitGeo ==
  /\ InitTTS /\ InitMap /\ InitWeatherIdle
  /\ geoCall \in ClosestCalls \cup PolygonCalls \cup DistanceCalls

\* The page load of the weather widget.
InitWidget == InitTTS /\ InitMap /\ geoCall = NoCall /\ InitWeather

NextTTS ==
  \/ lockTTS /\ UNCHANGED <<mapVars, audioVars, geoCall, weatherVars>>
  \/ unlockTTS /\ UNCHANGED <<mapVars, audioVars, geoCall, weatherVars>>
  \/ stopActiveSynthesizer /\ UNCHANGED <<mapVars, audioVars, geoCall, weatherVars>>
  \/ speakText /\ UNCHANGED <<mapVars, audioVars, geoCall, weatherVars>>
  \/ \E synth \in SynthIds : \E completed, closeThrows \in BOOLEAN :
       SpeakCallback(synth, completed, closeThrows) /\ UNCHANGED <<mapVars, audioVars, geoCall, weatherVars>>
  \/ \E synth \in SynthIds : \E closeThrows \in BOOLEAN :
       StopCallback(synth, closeThrows) /\ UNCHANGED <<mapVars, audioVars, geoCall, weatherVars>>

NextMap ==
  \/ startWatch /\ UNCHANGED <<ttsVars, audioVars, geoCall, weatherVars>>
  \/ stopWatch /\ UNCHANGED <<ttsVars, audioVars, geoCall, weatherVars>>
  \/ \E pos \in Positions : \E late \in BOOLEAN :
       PositionCallback(pos, late) /\ UNCHANGED <<ttsVars, audioVars, geoCall, weatherVars>>
  \/ GeoErrorCallback /\ UNCHANGED <<ttsVars, audioVars, geoCall, weatherVars>>
  \/ RunScanEffect /\ UNCHANGED <<ttsVars, audioVars, geoCall, weatherVars>>
  \/ \E t \in timers : TimerTick(t) /\ UNCHANGED <<ttsVars, audioVars, geoCall, weatherVars>>
  \/ handlePlayPoiAudio /\ UNCHANGED <<ttsVars, geoCall, weatherVars>>
  \/ handleStopAudio /\ UNCHANGED <<ttsVars, geoCall, weatherVars>>
  \/ \E fulfilled \in BOOLEAN :
       PlaySettled(fulfilled) /\ UNCHANGED <<ttsVars, geoCall, weatherVars>>
  \/ onEnded /\ UNCHANGED <<ttsVars, geoCall, weatherVars>>

\* The map view when getClosestPoiWithinRadius may raise inside scan.
NextMapFault ==
  \/ NextMap
  \/ \E t \in timers : TimerTickThrows(t) /\ UNCHANGED <<ttsVars, audioVars, geoCall, weatherVars>>
  \/ RunScanEffectThrows /\ UNCHANGED <<ttsVars, audioVars, geoCall, weatherVars>>

NextWeather ==
  \/ MountWidget /\ UNCHANGED <<ttsVars, mapVars, audioVars, geoCall>>
  \/ UnmountWidget /\ UNCHANGED <<ttsVars, mapVars, audioVars, geoCall>>
  \/ RefreshTick /\ UNCHANGED <<ttsVars, mapVars, audioVars, geoCall>>
  \/ TimePasses /\ UNCHANGED <<ttsVars, mapVars, audioVars, geoCall>>
  \/ \E f \in inflight : \E setItemThrows \in BOOLEAN :
       FetchSucceeds(f, setItemThrows) /\ UNCHANGED <<ttsVars, mapVars, audioVars, geoCall>>
  \/ \E f \in inflight :
       FetchFails(f) /\ UNCHANGED <<ttsVars, mapVars, audioVars, geoCall>>

NextGeo ==
  \/ CallClosest /\ UNCHANGED <<ttsVars, mapVars, audioVars, weatherVars>>
  \/ CallPointInPolygon /\ UNCHANGED <<ttsVars, mapVars, audioVars, weatherVars>>
  \/ CallDistanceToPolygon /\ UNCHANGED <<ttsVars, mapVars, audioVars, weatherVars>>

\* The TTS lock and its client, under every interleaving of their calls and
\* of the SDK's callbacks.
SpecTTS == Init /\ [][NextTTS]_vars

\* The map view, under every interleaving of clicks, geolocation callbacks,
\* renders and timer ticks.
SpecMap == Init /\ [][NextMap]_vars

(***************************************************************************)
(* Properties of the TTS lock                                              *)
(***************************************************************************)
Speaking == {s \in SynthIds : synths[s].speaking}

\* C1: a lockTTS never succeeds while a synthesizer started by an earlier
\* owner is still speaking, so at most one caller owns playback.
C1_OneOwner ==
  (lastOp.op = "lockTTS" /\ lastOp.ok) => Speaking = {}

\* C2: lockTTS returns true and locks only when the gate is unlocked; when it
\* is locked it returns false and leaves isLocked and activeSynthesizer as
\* they were, so two calls in a row return true then false.
C2_TryAcquire ==
  [][lastOp'.op = "lockTTS" =>
       /\ lastOp'.ok = ~isLocked
       /\ isLocked'
       /\ activeSynthesizer' = activeSynthesizer
       /\ (lastOp.op = "lockTTS" /\ lastOp.ok => ~lastOp'.ok)]_vars

C2_Witness ==
  lastOp.op = "lockTTS" /\ lastOp.locked /\ ~lastOp.ok /\ isLocked

\* C3: every release (unlockTTS, stopActiveSynthesizer) leaves the gate
\* unlocked with no stored handle, and a handle stored when the release began
\* had a stop/dispose attempt made on it.
C3_ReleaseDisposes ==
  lastOp.op \in {"unlockTTS", "stopActiveSynthesizer"} =>
    /\ ~isLocked
    /\ activeSynthesizer = NoSynth
    /\ (lastOp.prev # NoSynth => lastOp.prev \in lastOp.attempts)

\* C4: when stopSpeakingAsync or close throws, stopActiveSynthesizer still
\* ends unlocked with no handle, setActiveSynthesizer still ends with the new
\* handle stored, a stop callback still completes, and none of the three lets
\* the exception out.
C4_DisposeFailuresSwallowed ==
  (lastOp.stopThrew \/ lastOp.closeThrew) =>
    /\ ~lastOp.escaped
    /\ (lastOp.op = "stopActiveSynthesizer" =>
          ~isLocked /\ activeSynthesizer = NoSynth /\ ~lastOp.threw)
    /\ (lastOp.op = "speakText" => activeSynthesizer = nSynth)
    /\ (lastOp.op = "stopCallback" => ~lastOp.threw)

C4_Witness ==
  /\ lastOp.op \in {"stopActiveSynthesizer", "speakText"}
  /\ lastOp.stopThrew /\ lastOp.closeThrew
  /\ lastOp.prev # NoSynth

\* C5: setActiveSynthesizer(new), as speakText calls it: with a handle
\* stored, a stop/dispose attempt is made on exactly that handle and the
\* stored handle becomes new; with none stored it only stores new and
\* touches no synthesizer.  The lock bit is unchanged.
C5_ReplaceActive ==
  [][(lastOp'.op = "speakText" /\ nSynth' = nSynth + 1) =>
       /\ activeSynthesizer' = nSynth'
       /\ isLocked' = isLocked
       /\ IF activeSynthesizer # NoSynth
            THEN /\ lastOp'.attempts = {activeSynthesizer}
                 /\ \/ synths'[activeSynthesizer].stopCb = "pending"
                    \/ lastOp'.stopThrew
            ELSE /\ lastOp'.attempts = {}
                 /\ \A s \in SynthIds \ {nSynth'} : synths'[s] = synths[s]]_vars

C5_Witness ==
  /\ lastOp.op = "speakText"
  /\ lastOp.prev # NoSynth
  /\ lastOp.attempts = {lastOp.prev}
  /\ activeSynthesizer = nSynth
  /\ activeSynthesizer # lastOp.prev

\* C6: releasing an unlocked gate with no stored handle (unlockTTS or
\* stopActiveSynthesizer) changes nothing, attempts no dispose and throws
\* nothing.
C6_ReleaseIdempotent ==
  [][(lastOp'.op \in {"unlockTTS", "stopActiveSynthesizer"}
        /\ ~isLocked /\ activeSynthesizer = NoSynth) =>
       /\ isLocked' = isLocked
       /\ activeSynthesizer' = activeSynthesizer
       /\ synths' = synths
       /\ nSynth' = nSynth
       /\ lastOp'.attempts = {}
       /\ ~lastOp'.threw]_vars

C6_Witness ==
  /\ lastOp.op = "stopActiveSynthesizer"
  /\ ~lastOp.locked /\ lastOp.prev = NoSynth
  /\ ~isLocked /\ activeSynthesizer = NoSynth

\* The pure functions of geo.js, each called once on every input of the
\* bounded sets.
SpecGeo == InitGeo /\ [][NextGeo]_vars

\* The weather widget from the page load on, under every order of mounts,
\* unmounts, interval refreshes and settling requests.
SpecWeather == InitWidget /\ [][NextWeather]_vars

\* The map view with scans that may raise.
SpecMapFault == Init /\ [][NextMapFault]_vars

(***************************************************************************)
(* Properties of the proximity scanner                                     *)
(***************************************************************************)

\* C7: while watching, a position update only stores the position; once the
\* timer is armed, only a timer tick runs a scan, and nothing but a tick
\* happens to the timer: it is neither cleared nor re-armed.
C7_ScanOnlyOnTick ==
  [][(watching /\ watching' /\ timers # {} /\ mapOp' # "tick") =>
       (clock' = clock /\ timers' = timers)]_vars

\* C8: no scan runs and no timer is armed while no position is stored; the
\* first position of a session is scanned at once, exactly once, and the
\* timer is armed in that same effect run.
C8_FirstScanThenTimer ==
  [][/\ (clock' # clock => userPos # Null /\ watching')
     /\ (timers' # {} => userPos' # Null /\ watching')
     /\ (timers = {} /\ timers' # {} =>
           /\ clock' = clock + 1
           /\ lastCheckedAt' = clock'
           /\ closestPoi3m' =
                getClosestPoiWithinRadius(pois, userPos', ScanRadius)
           /\ timers' = {[pos |-> userPos', armedAt |-> clock']})
     /\ (mapOp' = "effect" /\ watching /\ userPos # Null /\ timers = {} =>
           clock' = clock + 1 /\ timers' # {})]_vars

C8_Witness ==
  /\ mapOp = "effect" /\ watching /\ userPos # Null
  /\ clock = 1 /\ lastCheckedAt = 1
  /\ timers = {[pos |-> userPos, armedAt |-> 1]}

\* C9: stopWatch cancels the timer, and from the stop to the next start no
\* scan runs and no result or timestamp is published, whatever ticks and
\* position callbacks arrive.
C9_NoScanAfterStop ==
  [][/\ (mapOp' = "stopWatch" =>
           timers' = {} /\ clock' = clock /\ closestPoi3m' = Null
           /\ lastCheckedAt' = lastCheckedAt)
     /\ (~watching /\ ~watching' =>
           timers' = {} /\ clock' = clock /\ closestPoi3m' = Null
           /\ lastCheckedAt' = lastCheckedAt)]_vars

C9_Witness ==
  /\ ~watching /\ mapOp = "effect"
  /\ userPos # Null /\ clock > 0
  /\ timers = {} /\ closestPoi3m = Null

\* C10: after stopWatch the whole session is reset: watching false, userPos,
\* closestPoi3m and lastCheckedAt null.
C10_StopResetsSession ==
  mapOp = "stopWatch" =>
    /\ ~watching
    /\ userPos = Null
    /\ closestPoi3m = Null
    /\ lastCheckedAt = 0

\* C11: starting tracking while already Watching is idempotent, whatever watch
\* id the geolocation source returned on the first start: a startWatch in a
\* Watching session registers no geolocation watch and creates no scan timer,
\* and after every step at most one watch and at most one timer exist.
C11_StartIdempotent ==
  [][ /\ (watching /\ mapOp' = "startWatch")
          => (geoWatches' = geoWatches /\ timers' = timers)
      /\ Cardinality(geoWatches') <= 1
      /\ Cardinality(timers') <= 1 ]_vars

\* C12: stopping tracking is idempotent.  A stopWatch in the Idle state (not
\* watching, no watch id held, no position stored: the state the mount and
\* every stopWatch leave) changes no session state, clears no geolocation
\* watch, runs no scan and touches no timer, so a stopWatch after a stopWatch
\* yields the state of the single stopWatch.  In every state that is not
\* watching, stopWatch clears no watch and leaves watching false.
C12_StopIdempotent ==
  [][ /\ (mapOp' = "stopWatch" /\ ~watching /\ userPos = Null) =>
            /\ watching' = watching
            /\ userPos' = userPos
            /\ watchIdRef' = watchIdRef
            /\ closestPoi3m' = closestPoi3m
            /\ lastCheckedAt' = lastCheckedAt
            /\ timers' = timers
            /\ effectTimer' = effectTimer
            /\ effectPending' = effectPending
            /\ clock' = clock
            /\ geoWatches' = geoWatches
            /\ lateCallback' = lateCallback
      /\ (mapOp' = "stopWatch" /\ ~watching) =>
            /\ ~watching'
            /\ watchIdRef = Null /\ watchIdRef' = Null
            /\ geoWatches' = geoWatches
            /\ clock' = clock ]_vars

\* stopWatch has run in a session that never started a watch
C12_Witness ==
  /\ mapOp = "stopWatch"
  /\ geoNextId = NoIdYet /\ geoWatches = {}
  /\ ~watching /\ userPos = Null /\ watchIdRef = Null

\* C13: a scan that raises is caught inside that scan: the published result
\* and timestamp stay as they were, the timer stays armed (the effect run
\* whose first scan raised still arms it), and the tick after a failed tick
\* scans and publishes as usual.
C13_ScanFailureContained ==
  [][ /\ (mapOp' \in {"tickThrew", "effectThrew"} =>
            /\ closestPoi3m' = closestPoi3m
            /\ lastCheckedAt' = lastCheckedAt
            /\ timers' # {})
      /\ (mapOp' = "tickThrew" => timers' = timers)
      /\ (mapOp = "tickThrew" /\ mapOp' = "tick" =>
            /\ clock' = clock + 1
            /\ lastCheckedAt' = clock'
            /\ \E t \in timers :
                 closestPoi3m' =
                   getClosestPoiWithinRadius(pois, t.pos, ScanRadius)) ]_vars

\* a tick has failed with a POI published by an earlier scan
C13_Witness ==
  /\ mapOp = "tickThrew"
  /\ watching /\ timers # {}
  /\ closestPoi3m # Null /\ lastCheckedAt > 0

\* the position of the first Talking Tree, and the result that reports it
AtTreeA == <<pois.items[1].lat, pois.items[1].lng>>
TreeAResult == <<1, 0>>

\* C14: while Watching with the user's position on a POI (distance 0, radius
\* 3 m), every scan publishes that POI: the effect run for that position and
\* every tick of its timer do, so once the position has been rendered the
\* result is that POI, and it stays that POI, never none, for as long as the
\* session goes on with the position on the POI.
C14_AtPoiAlwaysReported ==
  [][ /\ (watching' /\ userPos' = AtTreeA /\ ~effectPending')
            => closestPoi3m' = TreeAResult
      /\ (clock' # clock /\ mapOp' # "tick" /\ userPos' = AtTreeA)
            => closestPoi3m' = TreeAResult
      /\ (mapOp' = "tick" /\ \A t \in timers : t.pos = AtTreeA)
            => closestPoi3m' = TreeAResult
      /\ (watching /\ watching' /\ userPos = AtTreeA /\ userPos' = AtTreeA
             /\ closestPoi3m = TreeAResult)
            => closestPoi3m' = TreeAResult ]_vars

\* the third scan of a session standing on the POI was a tick
C14_Witness ==
  /\ mapOp = "tick" /\ watching
  /\ userPos = AtTreeA /\ ~effectPending
  /\ clock >= 3 /\ lastCheckedAt = clock
  /\ closestPoi3m = TreeAResult

\* C15: after the geolocation source reported an error while Watching, a
\* scan publishes none until a new position is delivered: the scan that runs
\* next after the error callback, with no position callback in between,
\* publishes none and so reports no POI from a position received before the
\* error.
C15_NoneAfterGeoError ==
  [][(mapOp = "geoError" /\ watching /\ clock' # clock)
       => closestPoi3m' = Null]_vars

\* C16: every scan uses the most recently delivered position and replaces
\* the published result: right after a scan, closestPoi3m is
\* getClosestPoiWithinRadius(pois, latest delivered position, 3.0) and
\* lastCheckedAt is the time of that scan.
C16_ScanUsesLatestPosition ==
  [][clock' # clock =>
       /\ closestPoi3m' = getClosestPoiWithinRadius(pois, userPos', ScanRadius)
       /\ lastCheckedAt' = clock']_vars

(***************************************************************************)
(* Properties of geo.js                                                    *)
(***************************************************************************)

\* a getClosestPoiWithinRadius call that has returned
ClosestReturned ==
  geoCall.fn = "getClosestPoiWithinRadius" /\ geoCall.done

\* the indices of the POIs of the call whose lat and lng are numbers
NumericPois ==
  { i \in 1..Len(geoCall.pois.items) :
      /\ geoCall.pois.items[i].typeofLat = "number"
      /\ geoCall.pois.items[i].typeofLng = "number" }

\* the distance from the call's user to its i-th POI
DistanceTo(i) ==
  haversineMeters(geoCall.user[1], geoCall.user[2],
                  geoCall.pois.items[i].lat, geoCall.pois.items[i].lng)

\* C17: getClosestPoiWithinRadius(pois, user, r) returns a POI with numeric
\* coordinates together with its distance d, where d <= r and d <= the
\* distance of every POI with numeric coordinates; it returns null exactly
\* when no POI with numeric coordinates has distance <= r, so a POI exactly
\* at distance r qualifies.
C17_ClosestWithinRadius ==
  (ClosestReturned /\ geoCall.user # Null /\ geoCall.pois.isArray) =>
    /\ geoCall.ret # Null =>
          /\ geoCall.ret[1] \in NumericPois
          /\ geoCall.ret[2] = DistanceTo(geoCall.ret[1])
          /\ geoCall.ret[2] <= geoCall.radiusMeters
          /\ \A j \in NumericPois : geoCall.ret[2] <= DistanceTo(j)
    /\ geoCall.ret = Null <=>
          \A j \in NumericPois : DistanceTo(j) > geoCall.radiusMeters

\* the POI returned lies exactly at the radius, after a farther POI and
\* before a non-numeric one
C17_Witness ==
  /\ ClosestReturned /\ geoCall.user # Null /\ geoCall.pois.isArray
  /\ Len(geoCall.pois.items) = 3
  /\ geoCall.ret # Null
  /\ geoCall.ret[1] = 2 /\ geoCall.ret[2] = geoCall.radiusMeters
  /\ 1 \in NumericPois /\ DistanceTo(1) > geoCall.radiusMeters
  /\ 3 \notin NumericPois

\* C18: when several POIs lie at the same minimal distance within the
\* radius, the one returned is the first of them in the input sequence.
C18_FirstOfTies ==
  (ClosestReturned /\ geoCall.ret # Null) =>
    \A j \in NumericPois :
      DistanceTo(j) = geoCall.ret[2] => geoCall.ret[1] <= j

\* two different POIs tie at the minimal distance and the first is returned
C18_Witness ==
  /\ ClosestReturned /\ geoCall.ret # Null
  /\ \E j \in NumericPois :
       /\ j > geoCall.ret[1]
       /\ DistanceTo(j) = geoCall.ret[2]
       /\ geoCall.pois.items[j].lat # geoCall.pois.items[geoCall.ret[1]].lat

\* C19: getClosestPoiWithinRadius returns null when user is absent, when
\* pois is empty and when pois is not an array; a POI whose lat or lng is not
\* a number is never the one returned, whatever the other POIs are, and a
\* list of such POIs only gives null.
C19_AbsentInputsGiveNull ==
  ClosestReturned =>
    /\ (geoCall.user = Null \/ ~geoCall.pois.isArray
          \/ Len(geoCall.pois.items) = 0) => geoCall.ret = Null
    /\ geoCall.ret # Null => geoCall.ret[1] \in NumericPois
    /\ NumericPois = {} => geoCall.ret = Null

\* a POI with a string coordinate lies nearer than the numeric POI returned
C19_Witness ==
  /\ ClosestReturned /\ geoCall.ret # Null
  /\ geoCall.ret[1] \in NumericPois
  /\ \E j \in 1..Len(geoCall.pois.items) :
       /\ j \notin NumericPois
       /\ geoCall.pois.items[j].typeofLat = "string"
       /\ DistanceTo(j) < geoCall.ret[2]

DistanceReturned ==
  geoCall.fn = "distanceToPolygonMeters" /\ geoCall.done

\* the distance from the call's point to the edge that leaves vertex i; the
\* edge that leaves the last vertex closes the ring on the first
EdgeDistance(i) ==
  distancePointToSegmentMeters(
    geoCall.point, geoCall.polygon[i],
    geoCall.polygon[IF i = Len(geoCall.polygon) THEN 1 ELSE i + 1])

\* C21: if pointInPolygon(P, Poly) is true, distanceToPolygonMeters(P, Poly)
\* is exactly 0; if it is false and Poly has at least one point, the result
\* is the minimum over all edges, the closing edge last -> first included,
\* of the point-to-segment distance.
C21_ZeroInsideElseNearestEdge ==
  DistanceReturned =>
    /\ pointInPolygon(geoCall.point, geoCall.polygon)
          => geoCall.ret = ZeroDistance
    /\ (~pointInPolygon(geoCall.point, geoCall.polygon)
          /\ Len(geoCall.polygon) >= 1) =>
          /\ \E i \in 1..Len(geoCall.polygon) :
               SameDistance(geoCall.ret, EdgeDistance(i))
          /\ \A i \in 1..Len(geoCall.polygon) :
               ~LessThan(EdgeDistance(i), geoCall.ret)

\* a point outside a polygon of three or more points whose nearest edge is
\* the closing one alone
C21_Witness ==
  /\ DistanceReturned
  /\ ~pointInPolygon(geoCall.point, geoCall.polygon)
  /\ Len(geoCall.polygon) >= 3
  /\ LessThan(ZeroDistance, geoCall.ret)
  /\ SameDistance(geoCall.ret, EdgeDistance(Len(geoCall.polygon)))
  /\ \A i \in 1..(Len(geoCall.polygon) - 1) :
       LessThan(geoCall.ret, EdgeDistance(i))

\* C22: distanceToPolygonMeters returns 0 for a polygon with zero points,
\* for every query point.
C22_EmptyPolygonZero ==
  (DistanceReturned /\ Len(geoCall.polygon) = 0)
    => SameDistance(geoCall.ret, ZeroDistance)

\* a pointInPolygon call that has returned
PolygonReturned == geoCall.fn = "pointInPolygon" /\ geoCall.done

\* The horizontal ray from pt towards greater lng crosses the edge a-b: the
\* ray's latitude lies between the lower endpoint (included) and the upper
\* one (excluded), and the edge is at that latitude east of pt.
RayCrossesEdge(pt, a, b) ==
  LET lo == IF a[1] <= b[1] THEN a ELSE b
      hi == IF a[1] <= b[1] THEN b ELSE a
  IN /\ lo[1] <= pt[1] /\ pt[1] < hi[1]
     /\ (pt[2] - lo[2]) * (hi[1] - lo[1]) < (hi[2] - lo[2]) * (pt[1] - lo[1])

\* the edges of the closed ring the call's ray crosses, each named by the
\* vertex it leaves
EdgesCrossed ==
  { i \in 1..Len(geoCall.polygon) :
      RayCrossesEdge(geoCall.point, geoCall.polygon[i],
                     geoCall.polygon[IF i = Len(geoCall.polygon)
                                       THEN 1 ELSE i + 1]) }

\* the call's polygon is the ring of an axis-aligned rectangle: four
\* different corners, each sharing its lat or its lng with the next
IsRectangleRing ==
  /\ Len(geoCall.polygon) = 4
  /\ Cardinality({geoCall.polygon[i] : i \in 1..4}) = 4
  /\ \A i \in 1..4 :
       LET a == geoCall.polygon[i]
           b == geoCall.polygon[IF i = 4 THEN 1 ELSE i + 1]
       IN (a[1] = b[1]) # (a[2] = b[2])

\* with the rectangle's sides at lat 0 and 2 and lng 0 and 2
StrictlyInsideRectangle ==
  /\ 0 < geoCall.point[1] /\ geoCall.point[1] < 2
  /\ 0 < geoCall.point[2] /\ geoCall.point[2] < 2

OnRectangleBoundary ==
  /\ geoCall.point[1] \in 0..2 /\ geoCall.point[2] \in 0..2
  /\ ~StrictlyInsideRectangle

\* C23: pointInPolygon returns true exactly when the horizontal ray from the
\* point to the right crosses an odd number of edges of the closed ring; for
\* an axis-aligned rectangle and a point not on its boundary it returns true
\* iff the point is strictly inside.
C23_OddCrossingsInside ==
  PolygonReturned =>
    /\ geoCall.ret <=> (Cardinality(EdgesCrossed) % 2 = 1)
    /\ (IsRectangleRing /\ ~OnRectangleBoundary)
         => (geoCall.ret <=> StrictlyInsideRectangle)

\* the square [[0,0],[0,2],[2,2],[2,0]] and its centre
C23_Witness ==
  /\ PolygonReturned
  /\ geoCall.polygon = << <<0, 0>>, <<0, 2>>, <<2, 2>>, <<2, 0>> >>
  /\ geoCall.point = <<1, 1>>
  /\ IsRectangleRing /\ StrictlyInsideRectangle
  /\ Cardinality(EdgesCrossed) = 1
  /\ geoCall.ret = TRUE

(***************************************************************************)
(* Properties of the weather widget                                        *)
(***************************************************************************)

\* the cache holds an entry younger than the 15-minute TTL
CacheFresh == cache.kind = "entry" /\ now - cache.timestamp < CACHE_DURATION

\* the request a step settled successfully
SettledOk ==
  IF weatherOp' \in {"fetchOk", "fetchOkNotCached"}
    THEN inflight \ inflight' ELSE {}

\* what the mount of an instance does with the cache
MountReadsThrough ==
  (weatherOp' = "mount" /\ mounts' = mounts + 1) =>
    IF CacheFresh
      THEN /\ weather' = cache.data
           /\ ~loading' /\ error' = NoError
           /\ Display' = "weather"
           /\ requests' = requests /\ inflight' = inflight
      ELSE requests' = requests + 1

\* C24: a mount with a cache entry younger than the 15-minute TTL displays
\* the cached data and issues no API request; a mount issues a request only
\* when the entry is missing, unreadable or at least 15 minutes old; and
\* every successful fetch writes the entry back with the current timestamp.
C24_CacheReadThrough ==
  [][ /\ MountReadsThrough
      /\ \A f \in SettledOk : cache' = CacheEntry(DataOf(f.id), now) ]_vars

\* C24 as amended: the same at mount; a successful fetch writes the entry
\* back with the current timestamp unless localStorage.setItem raises, and
\* then the entry is left as it was.
C24_CacheReadThroughUnlessStorageFails ==
  [][ /\ MountReadsThrough
      /\ \A f \in SettledOk :
           IF weatherOp' = "fetchOk"
             THEN cache' = CacheEntry(DataOf(f.id), now)
             ELSE cache' = cache ]_vars

\* the second instance mounted on the entry the first one's fetch wrote and
\* asked the API for nothing
C24_Witness ==
  /\ weatherOp = "mount" /\ mounts = 2
  /\ requests = 1 /\ inflight = {}
  /\ CacheFresh /\ cache.data = DataOf(1)
  /\ weather = DataOf(1) /\ Display = "weather"

\* a step in which a request of the mounted instance failed
LiveFetchFailed == weatherOp' = "fetchFailed" /\ inflight' # inflight

\* a step in which a request of the mounted instance settled
LiveFetchSettled ==
  \E f \in inflight \ inflight' : f.instance = mounted

\* C25: a failed fetch takes the widget out of the loading state; it ends in
\* the error state ("Weather unavailable") if no unexpired cache entry
\* exists, and otherwise shows the unexpired cached data with no error.
\* Without a valid cache the loading state is shown from the mount until the
\* first fetch of the instance settles, and a fetch is then in flight.
C25_FailureFallsBackToCache ==
  [][ /\ LiveFetchFailed =>
            /\ ~loading'
            /\ IF CacheFresh
                 THEN /\ weather' = cache.data /\ error' = NoError
                      /\ Display' = "weather"
                 ELSE /\ error' # NoError
                      /\ Display' = "Weather unavailable"
      /\ (weatherOp' = "mount" /\ mounts' = mounts + 1 /\ ~CacheFresh)
            => Display' = "Loading..."
      /\ (loading /\ mounted # 0 /\ mounted' = mounted /\ ~LiveFetchSettled)
            => loading'
      /\ (loading' /\ mounted' # 0)
            => \E f \in inflight' : f.instance = mounted' ]_vars

\* the refresh of a widget failed while the entry its first fetch wrote was
\* still fresh
C25_Witness ==
  /\ weatherOp = "fetchFailed" /\ mounted # 0
  /\ requests >= 2
  /\ CacheFresh /\ cache.data = DataOf(1)
  /\ weather = cache.data /\ error = NoError
  /\ Display = "weather"

(***************************************************************************)
(* Properties of speakText under the TTS lock                              *)
(***************************************************************************)

\* C26: a speakText entered with the gate locked never leaves it locked for
\* good: when it returns or throws, either the gate is already unlocked or
\* the synthesizer it created has a completion/error callback pending, whose
\* invocation unlocks the gate.
C26_SpeakTextReleasesGate ==
  [][(lastOp'.op = "speakText" /\ isLocked) =>
       \/ ~isLocked'
       \/ /\ nSynth' = nSynth + 1
          /\ synths'[nSynth'].speakCb = "pending"]_vars

\* C27: a stored synthesizer handle implies a locked gate.
C27_HandleImpliesLocked ==
  activeSynthesizer # NoSynth => isLocked

C27_Witness ==
  /\ activeSynthesizer # NoSynth
  /\ isLocked
  /\ lastOp.op = "lockTTS" /\ ~lastOp.ok

\* C28: speakText on an unlocked gate returns null, calls onError once and
\* onEnd never, creates no synthesizer and changes neither isLocked nor
\* activeSynthesizer; no step starts a synthesizer speaking on an unlocked
\* gate, and only a successful lockTTS locks the gate.
C28_UnlockedSpeakStartsNothing ==
  [][/\ (lastOp'.op = "speakText" /\ ~isLocked) =>
          /\ lastOp'.synth = NoSynth
          /\ lastOp'.onError = 1 /\ lastOp'.onEnd = 0
          /\ ~lastOp'.threw
          /\ nSynth' = nSynth /\ synths' = synths
          /\ isLocked' = isLocked
          /\ activeSynthesizer' = activeSynthesizer
     /\ (Speaking' \ Speaking # {}) => isLocked
     /\ (isLocked' /\ ~isLocked) => (lastOp'.op = "lockTTS" /\ lastOp'.ok)]_vars

C28_Witness ==
  /\ lastOp.op = "speakText"
  /\ ~lastOp.locked
  /\ lastOp.onError = 1
  /\ nSynth > 0

(***************************************************************************)
(* Properties of the proximity session of the map view                     *)
(***************************************************************************)

\* C29: once pending effects have run, a published proximity result implies
\* an active session with a known position, and a scan timer is armed only
\* in an active session with a known position.
C29_ResultImpliesSession ==
  ~effectPending =>
    /\ closestPoi3m # Null => (watching /\ userPos # Null)
    /\ timers # {} => (watching /\ userPos # Null)

\* A position delivered after Stop has been rendered: no result, no timer.
C29_Witness ==
  /\ ~effectPending
  /\ ~watching /\ userPos # Null
  /\ closestPoi3m = Null /\ timers = {}
  /\ lastCheckedAt # 0

\* C30: proximity audio is marked playing only while a POI is in range, so
\* the Stop control is rendered whenever isPlaying is true.
C30_PlayingImpliesInRange ==
  isPlaying => StopRendered

====
